---- MODULE Spec2Model ----
(***************************************************************************)
(* A model of the serverless handlers of searchermax: the search handler   *)
(* family (fan-out to four source adapters, merge, truncate, optional      *)
(* summary) and the chat/generate handler family (per-user conversation    *)
(* file, model call, save).                                                *)
(*                                                                         *)
(* Two specifications share the module: SearchSpec runs one search request  *)
(* (handlers are stateless, so one request shows every behaviour), ChatSpec *)
(* runs several chat requests that share the conversation files.           *)
(***************************************************************************)
EXTENDS Integers, Sequences, FiniteSets, TLC

\* ------------------------------------------------------------------ bounds
\* Most entries an upstream provider puts in one payload.
MaxHits == 5

\* The chat requests of one run.
NReq == 2

\* Most results the search step hands the chat handler.
MaxCards == 2

\* Most pieces a text given to detectLanguage is made of.
MaxPieces == 3

\* --------------------------------------------------------- program constants
DuckLimit == 5
FeedLimit == 6
SourceLimit == 10
ImageLimit == 6

\* ------------------------------------------------------------------ helpers
Min(a, b) == IF a < b THEN a ELSE b

\* Array.prototype.slice(0, n)
Slice0(s, n) == SubSeq(s, 1, Min(n, Len(s)))

\* Array.prototype.map
MapSeq(s, F(_)) == [i \in 1..Len(s) |-> F(s[i])]

\* ------------------------------------------------------- search: the inputs
\* The four search handlers: "summarizing" is src/unnamed/part_000, "plain" is
\* src/unnamed/part_001, "feeds" is the first handler of src/api/search.js,
\* "social" is src/api/social-search.js.
SearchVariants == {"summarizing", "plain", "feeds", "social"}

\* The request's body (its query string for "social") as the handler finds
\* it: none at all, an object without the query field, an object whose query
\* is "", an object with a query.
Bodies == {"absent", "noquery", "empty", "query"}

WebAdapters == {"duck", "reddit", "wiki", "news"}
SocialOrder == <<"x", "socialReddit", "instagram", "youtube">>
SocialAdapters == {SocialOrder[i] : i \in 1..Len(SocialOrder)}
Adapters == WebAdapters \cup SocialAdapters

AdaptersOf(v) == IF v = "social" THEN SocialAdapters ELSE WebAdapters

\* The request's sources value: not given (or ""), or naming some adapters.
SourcesValues ==
    {[given |-> FALSE, names |-> {}]}
    \cup {[given |-> TRUE, names |-> S] : S \in SUBSET SocialAdapters}

\* !sources || sources.includes(name)
Enabled(src, a) == ~src.given \/ a \in src.names

SourceLabel(a) ==
    CASE a = "duck" -> "DuckDuckGo"
      [] a = "reddit" -> "Reddit"
      [] a = "wiki" -> "Wikipedia"
      [] a = "news" -> "News"
      [] a = "x" -> "X"
      [] a = "socialReddit" -> "Reddit"
      [] a = "instagram" -> "Instagram"
      [] a = "youtube" -> "YouTube"

\* An absent image (null) and a present one (the URL of entry i of provider a).
NoImage == <<>>
ImageUrl(a, i) == <<SourceLabel(a), i>>

\* Which entries of a payload carry an image.
Masks == {"none", "all", "odd"}

HasImage(mask, i) == mask = "all" \/ (mask = "odd" /\ i % 2 = 1)

\* The normalized records an adapter builds from a payload of n entries.
Hits(a, n, mask) ==
    [i \in 1..n |->
        [source |-> SourceLabel(a),
         rank |-> i,
         image |-> IF HasImage(mask, i) THEN ImageUrl(a, i) ELSE NoImage]]

\* What fetch and res.json() can give an adapter: a payload, a network fault
\* (fetch rejects), an unparseable body (res.json() rejects), or a non-success
\* status with a JSON error body.
Faults == {"network", "malformed", "status"}

\* The Wikipedia summary is one page; the DuckDuckGo and RSS payloads may hold
\* more entries than the adapter keeps.
PayloadSizes(v, a) ==
    CASE a = "wiki" -> {1}
      [] a = "duck" -> 0..(MaxHits + 1)
      [] a = "news" /\ v = "feeds" -> 0..(MaxHits + 2)
      [] OTHER -> 0..MaxHits

\* Only the records of part_000 and part_001 have an image field.
MasksOf(v) == IF v \in {"summarizing", "plain"} THEN Masks ELSE {"none"}

UpstreamOf(v, a) ==
    {[kind |-> k, n |-> 0, mask |-> "none"] : k \in Faults}
    \cup
    {up \in [kind : {"ok"}, n : PayloadSizes(v, a), mask : MasksOf(v)] :
        /\ up.n = 0 => up.mask = "none"
        /\ up.n = 1 => up.mask # "odd"}

\* ------------------------------------------------------ search: the adapters
\* The state of one adapter call (a promise).
Idle == [state |-> "idle", value |-> <<>>]
Pending == [state |-> "pending", value |-> <<>>]
Rejected == [state |-> "rejected", value |-> <<>>]
Fulfilled(v) == [state |-> "fulfilled", value |-> v]

\* part_000 and part_001: no try/catch and no res.ok test, so a fault of fetch
\* or of res.json() rejects; an error object has no RelatedTopics and no
\* AbstractText.
searchDuckDuckGo(up) ==
    CASE up.kind \in {"network", "malformed"} -> Rejected
      [] up.kind = "status" -> Fulfilled(<<>>)
      [] OTHER -> Fulfilled(Slice0(Hits("duck", up.n, up.mask), DuckLimit))

\* part_000 wraps the body in try/catch; part_001 does not. An error object
\* has no data.children, so posts is [].
searchReddit(v, up) ==
    CASE up.kind \in {"network", "malformed"} ->
            IF v = "summarizing" THEN Fulfilled(<<>>) ELSE Rejected
      [] up.kind = "status" -> Fulfilled(<<>>)
      [] OTHER -> Fulfilled(Hits("reddit", up.n, up.mask))

\* Both variants return [] when !res.ok; only part_000 has the try/catch.
searchWikipedia(v, up) ==
    CASE up.kind \in {"network", "malformed"} ->
            IF v = "summarizing" THEN Fulfilled(<<>>) ELSE Rejected
      [] up.kind = "status" -> Fulfilled(<<>>)
      [] OTHER -> Fulfilled(Hits("wiki", 1, up.mask))

\* try/catch and the res.ok test in both variants.
searchNews(up) ==
    CASE up.kind \in Faults -> Fulfilled(<<>>)
      [] OTHER -> Fulfilled(Hits("news", up.n, up.mask))

\* src/api/search.js: every adapter catches; null (which the handler turns
\* into [] or null) is the empty sequence here.
feedsDuckDuckGo(up) ==
    CASE up.kind \in Faults -> Fulfilled(<<>>)
      [] OTHER -> Fulfilled(Slice0(Hits("duck", up.n, "none"), DuckLimit))

fetchNewsRSS(up) ==
    CASE up.kind \in Faults -> Fulfilled(<<>>)
      [] OTHER -> Fulfilled(Slice0(Hits("news", up.n, "none"), FeedLimit))

fetchReddit(up) ==
    CASE up.kind \in Faults -> Fulfilled(<<>>)
      [] OTHER -> Fulfilled(Hits("reddit", up.n, "none"))

fetchWikipedia(up) ==
    CASE up.kind \in Faults -> Fulfilled(<<>>)
      [] OTHER -> Fulfilled(Hits("wiki", 1, "none"))

\* src/lib/adapters: a missing credential, a fault and an error object all
\* give [].
searchInstagram(up) ==
    CASE up.kind \in Faults -> Fulfilled(<<>>)
      [] OTHER -> Fulfilled(Hits("instagram", up.n, "none"))

searchYouTube(up) ==
    CASE up.kind \in Faults -> Fulfilled(<<>>)
      [] OTHER -> Fulfilled(Hits("youtube", up.n, "none"))

\* lib/adapters/x.js and lib/adapters/reddit.js are not in the sources: an
\* adapter returns its records and never raises.
searchX(up) ==
    CASE up.kind \in Faults -> Fulfilled(<<>>)
      [] OTHER -> Fulfilled(Hits("x", up.n, "none"))

socialReddit(up) ==
    CASE up.kind \in Faults -> Fulfilled(<<>>)
      [] OTHER -> Fulfilled(Hits("socialReddit", up.n, "none"))

RunAdapter(a, v, up) ==
    CASE a = "x" -> searchX(up)
      [] a = "socialReddit" -> socialReddit(up)
      [] a = "instagram" -> searchInstagram(up)
      [] a = "youtube" -> searchYouTube(up)
      [] a = "duck" -> IF v = "feeds" THEN feedsDuckDuckGo(up) ELSE searchDuckDuckGo(up)
      [] a = "reddit" -> IF v = "feeds" THEN fetchReddit(up) ELSE searchReddit(v, up)
      [] a = "wiki" -> IF v = "feeds" THEN fetchWikipedia(up) ELSE searchWikipedia(v, up)
      [] a = "news" -> IF v = "feeds" THEN fetchNewsRSS(up) ELSE searchNews(up)

\* ------------------------------------------------------- search: the handler
\* Reading the query: "throws", "missing" (falsy) or "present". part_000
\* parses the body itself and survives a request without one; part_001 and
\* src/api/search.js destructure req.body inside the try; req.query of
\* social-search.js is always an object.
ParseQuery(v, body) ==
    CASE body = "query" -> "present"
      [] body = "absent" ->
            IF v \in {"plain", "feeds"} THEN "throws" ELSE "missing"
      [] OTHER -> "missing"

\* Mutant: the results merged in the order of the Promise.all destructuring.
MergeSources_FanOutOrder(c) ==
    Slice0(c["duck"].value \o c["reddit"].value \o c["wiki"].value \o c["news"].value,
           SourceLimit)

\* [...wiki, ...news, ...reddit, ...duck].slice(0, 10)
MergeSources(c) ==
    Slice0(c["wiki"].value \o c["news"].value \o c["reddit"].value \o c["duck"].value,
           SourceLimit)

ImageOf(s) == s.image
Truthy(s) == s.image # NoImage

\* Mutant: the image list without its slice(0, 6).
ImagesOf_Unbounded(srcs) == MapSeq(SelectSeq(srcs, Truthy), ImageOf)

\* sources.filter((s) => s.image).map((s) => s.image).slice(0, 6)
ImagesOf(srcs) == Slice0(MapSeq(SelectSeq(srcs, Truthy), ImageOf), ImageLimit)

FallbackReply == "Here's what I found online"
ModelReply == "model summary"
NoReply == "absent"

NoGroups == [wikipedia |-> <<>>, news |-> <<>>, web |-> <<>>, reddit |-> <<>>]

NoResponse ==
    [status |-> 0, shape |-> "none", reply |-> NoReply, sources |-> <<>>,
     images |-> <<>>, fetched |-> 0, grouped |-> NoGroups]

ErrorResponse(code) ==
    [status |-> code, shape |-> "error", reply |-> NoReply, sources |-> <<>>,
     images |-> <<>>, fetched |-> 0, grouped |-> NoGroups]

\* part_001: { sources, summary }
PlainResponse(srcs) ==
    [status |-> 200, shape |-> "plain", reply |-> NoReply, sources |-> srcs,
     images |-> <<>>, fetched |-> Len(srcs), grouped |-> NoGroups]

\* part_000: { reply, sources, images, summary }
FullResponse(reply, srcs) ==
    [status |-> 200, shape |-> "full", reply |-> reply, sources |-> srcs,
     images |-> ImagesOf(srcs), fetched |-> Len(srcs), grouped |-> NoGroups]

\* src/api/search.js: { query, timestamp, sources: { wikipedia, news, web, reddit } }
GroupedResponse(c) ==
    [status |-> 200, shape |-> "grouped", reply |-> NoReply, sources |-> <<>>,
     images |-> <<>>, fetched |-> 0,
     grouped |-> [wikipedia |-> c["wiki"].value, news |-> c["news"].value,
                  web |-> c["duck"].value, reddit |-> c["reddit"].value]]

\* social-search.js: { items: results }
ItemsResponse(items) ==
    [status |-> 200, shape |-> "items", reply |-> NoReply, sources |-> items,
     images |-> <<>>, fetched |-> 0, grouped |-> NoGroups]

\* The reply after the try/catch around the model call: the text on success,
\* the initial value of reply when anything in the try block throws.
ReplyAfter(outcome) == IF outcome = "ok" THEN ModelReply ELSE FallbackReply

\* Mutant: the model call outside its try/catch, so that a failure reaches
\* the handler's catch.
AnswerAfterSummary_Propagates(outcome, srcs) ==
    IF outcome = "throws" THEN ErrorResponse(500)
    ELSE FullResponse(ReplyAfter(outcome), srcs)

\* What part_000 answers once the summary step is over.
AnswerAfterSummary(outcome, srcs) == FullResponse(ReplyAfter(outcome), srcs)

\* The first adapter at or after position k that the request enables;
\* Len(SocialOrder) + 1 when there is none.
NextEnabled(src, k) ==
    LET later == {i \in k..Len(SocialOrder) : Enabled(src, SocialOrder[i])}
    IN  IF later = {} THEN Len(SocialOrder) + 1
        ELSE CHOOSE i \in later : \A j \in later : i <= j

VARIABLES
    sVariant,      \* which search handler serves the request
    sBody,         \* the request's body
    sSources,      \* the request's sources value
    geminiKey,     \* process.env.GEMINI_API_KEY is set
    sPc,           \* the handler's position
    sNext,         \* social-search.js: the position in SocialOrder
    calls,         \* the adapter calls
    sources,       \* the handler's sources (results, for social-search.js)
    geminiCall,    \* the model call: "none", "pending", "ok", "throws"
    response       \* what the handler sent

searchVars ==
    <<sVariant, sBody, sSources, geminiKey, sPc, sNext, calls, sources,
      geminiCall, response>>

\* --------------------------------------------------------- chat: the inputs
\* The two chat handlers of src/api/search.js: "remembering" is the handler
\* at line 217, "searching" the handler at line 401.
ChatVariants == {"remembering", "searching"}

Users == {"u1", "u2"}

\* The chat requests a run serves.
Reqs == 1..NReq

\* A JSON value where the handler expects text: a string (its words, or its
\* characters where the code looks into it), a missing or empty value
\* (falsy), or a truthy value that is no string.
Str(w) == [kind |-> "string", words |-> w]
NoText == [kind |-> "missing", words |-> <<>>]
NonString == [kind |-> "other", words |-> <<>>]

\* ------------------------------------------------------ chat: text matching
\* A string the code looks into is the sequence of its characters.
Lowers ==
    <<"a", "b", "c", "d", "e", "f", "g", "h", "i", "j", "k", "l", "m",
      "n", "o", "p", "q", "r", "s", "t", "u", "v", "w", "x", "y", "z">>
Uppers ==
    <<"A", "B", "C", "D", "E", "F", "G", "H", "I", "J", "K", "L", "M",
      "N", "O", "P", "Q", "R", "S", "T", "U", "V", "W", "X", "Y", "Z">>

\* String.prototype.toLowerCase
LowerChar(c) ==
    IF \E i \in 1..Len(Uppers) : Uppers[i] = c
    THEN Lowers[CHOOSE i \in 1..Len(Uppers) : Uppers[i] = c]
    ELSE c
toLowerCase(t) == [i \in 1..Len(t) |-> LowerChar(t[i])]

\* String.prototype.includes
includes(t, w) ==
    \E i \in 1..(Len(t) - Len(w) + 1) : SubSeq(t, i, i + Len(w) - 1) = w

\* The keyword lists of the two detectLanguage functions.
swahiliWords(v) ==
    IF v = "remembering"
    THEN <<<<"h", "a", "b", "a", "r", "i">>,
           <<"s", "a", "s", "a">>,
           <<"n", "i", "k", "o">>,
           <<"k", "w", "a", "n", "i">>,
           <<"b", "a", "s", "i">>,
           <<"n", "d", "i", "o">>,
           <<"k", "a", "r", "i", "b", "u">>,
           <<"a", "s", "a", "n", "t", "e">>>>
    ELSE <<<<"h", "a", "b", "a", "r", "i">>,
           <<"s", "a", "s", "a">>,
           <<"k", "w", "a", "n", "i">>,
           <<"n", "i", "k", "o">>,
           <<"b", "a", "s", "i">>,
           <<"n", "d", "i", "o">>,
           <<"a", "s", "a", "n", "t", "e">>>>

shengWords(v) ==
    IF v = "remembering"
    THEN <<<<"b", "r", "o">>,
           <<"m", "a", "z", "e">>,
           <<"m", "a", "n", "z", "e">>,
           <<"n", "o", "m", "a">>,
           <<"f", "i", "t", "i">>,
           <<"s", "a", "f", "i">>,
           <<"b", "u", "d", "a">>,
           <<"m", "s", "e", "e">>,
           <<"m", "w", "a", "n", "a">>,
           <<"p", "o", "a">>>>
    ELSE <<<<"b", "r", "o">>,
           <<"m", "a", "z", "e">>,
           <<"f", "i", "t", "i">>,
           <<"s", "a", "f", "i">>,
           <<"b", "u", "d", "a">>,
           <<"m", "s", "e", "e">>,
           <<"p", "o", "a">>>>

\* Mutant: detectLanguage matching the text as typed.
detectLanguage_CaseSensitive(v, text) ==
    LET Hit(w) == includes(text, w)
        swCount == Len(SelectSeq(swahiliWords(v), Hit))
        shCount == Len(SelectSeq(shengWords(v), Hit))
    IN  IF swCount + shCount = 0 THEN "english"
        ELSE IF swCount + shCount < 3 THEN "mixed"
        ELSE "swahili"

\* detectLanguage: count the keywords of each list the lower-cased text
\* includes, and classify by the sum.
detectLanguage(v, text) ==
    LET lower == toLowerCase(text)
        Hit(w) == includes(lower, w)
        swCount == Len(SelectSeq(swahiliWords(v), Hit))
        shCount == Len(SelectSeq(shengWords(v), Hit))
    IN  IF v = "remembering"
        THEN IF swCount + shCount = 0 THEN "english"
             ELSE IF swCount + shCount < 3 THEN "mixed"
             ELSE "swahili"
        ELSE IF swCount + shCount > 2 THEN "swahili"
             ELSE IF swCount + shCount > 0 THEN "mixed"
             ELSE "english"

\* The texts detectLanguage is applied to: up to MaxPieces pieces, one after
\* the other. A keyword may be typed in capitals, repeated, or split over two
\* pieces.
Pieces ==
    {<<"H", "a", "b", "a", "r", "i">>,
     <<"S", "A", "S", "A">>,
     <<"b", "r", "o">>,
     <<"k", "a", "r", "i", "b", "u">>,
     <<"p", "o", "a">>,
     <<" ">>,
     <<"m", "a">>,
     <<"z", "e">>,
     <<"x">>}

RECURSIVE Concat(_)
Concat(ps) == IF ps = <<>> THEN <<>> ELSE Head(ps) \o Concat(Tail(ps))

Texts == {Concat(ps) : ps \in UNION {[1..n -> Pieces] : n \in 0..MaxPieces}}

\* The bodies request r may carry: no prompt, a prompt that is a number, a
\* greeting with a project ("sasa" and the request's number), a prompt with
\* a search trigger inside a word and in capitals ("Findings" and the number).
ChatBodies(r) ==
    {[prompt |-> NoText, project |-> NoText],
     [prompt |-> NonString, project |-> NoText],
     [prompt |-> Str(<<"s", "a", "s", "a">> \o <<ToString(r)>>), project |-> Str(<<"proj">>)],
     [prompt |-> Str(<<"F", "i", "n", "d", "i", "n", "g", "s">> \o <<ToString(r)>>),
      project |-> NoText]}

\* The texts the chat model may answer with: none, or a sentence that opens
\* with a disclaimer phrase.
ModelTexts == {NoText, Str(<<"as an ai", "sure">>)}

\* What the fetch of the chat model can give: a network fault (fetch
\* rejects), a non-success status, an unparseable body, an answer.
UpstreamStatuses == {429}

ModelOutcomes ==
    {[kind |-> k, code |-> 0, text |-> NoText] : k \in {"network", "malformed"}}
    \cup {[kind |-> "status", code |-> c, text |-> NoText] : c \in UpstreamStatuses}
    \cup {[kind |-> "ok", code |-> 200, text |-> t] : t \in ModelTexts}

\* What getSearchData can return: null, a body without results, a body with
\* results.
SearchData ==
    {[isNull |-> TRUE, sources |-> <<>>]}
    \cup {[isNull |-> FALSE, sources |-> Hits("news", n, "all")] : n \in {0, MaxCards}}

\* --------------------------------------------------- chat: the memory store
Turn(role, content) == [role |-> role, content |-> content]

SystemPrompt(v) ==
    IF v = "remembering" THEN Str(<<"persona", "2025", "search capability">>)
    ELSE Str(<<"persona", "context">>)

Memory(userId, lastProject, lastTask, conversation) ==
    [userId |-> userId, lastProject |-> lastProject, lastTask |-> lastTask,
     conversation |-> conversation]

\* The record loadMemory builds when it has nothing to return.
DefaultMemory(v, userId) ==
    Memory(userId, NoText, NoText, <<Turn("system", SystemPrompt(v))>>)

NoMemory == Memory("", NoText, NoText, <<>>)

\* A conversation file: absent, holding JSON text, or holding text that
\* JSON.parse rejects (a truncated write).
Absent == [kind |-> "absent", value |-> NoMemory]
Garbage == [kind |-> "garbage", value |-> NoMemory]

\* JSON.stringify(memory, null, 2)
Stringify(memory) == [kind |-> "json", value |-> memory]

\* JSON.parse(fs.readFileSync(filePath, "utf-8"))
ParseFile(file) ==
    IF file.kind = "json" THEN [threw |-> FALSE, value |-> file.value]
    ELSE [threw |-> TRUE, value |-> NoMemory]

\* Mutant: loadMemory without its try/catch.
loadMemory_NoCatch(v, userId, file) ==
    IF file.kind = "absent"
    THEN [threw |-> FALSE, found |-> "absent", memory |-> DefaultMemory(v, userId)]
    ELSE [threw |-> ParseFile(file).threw, found |-> file.kind,
          memory |-> ParseFile(file).value]

\* loadMemory: the parsed file when it exists and parses, the default record
\* otherwise; a failure to read or parse is caught.
loadMemory(v, userId, file) ==
    IF file.kind = "absent"
    THEN [threw |-> FALSE, found |-> "absent", memory |-> DefaultMemory(v, userId)]
    ELSE IF ParseFile(file).threw
    THEN [threw |-> FALSE, found |-> "garbage", memory |-> DefaultMemory(v, userId)]
    ELSE [threw |-> FALSE, found |-> "json", memory |-> ParseFile(file).value]

\* What fs.writeFileSync can do: write the text, or throw, leaving the file
\* as it was or truncated.
WriteOutcomes == {"ok", "failed", "truncated"}

FileAfterWrite(file, text, w) ==
    CASE w = "ok" -> text
      [] w = "failed" -> file
      [] w = "truncated" -> Garbage

\* Mutant: saveMemory appending the request's two Turns to what the file holds.
saveMemory_Merging(v, fs, userId, memory, w) ==
    LET old == loadMemory(v, userId, fs[userId]).memory
        n == Len(memory.conversation)
        merged == [memory EXCEPT !.conversation =
                      old.conversation \o SubSeq(memory.conversation, n - 1, n)]
    IN  [threw |-> FALSE,
         files |-> [fs EXCEPT ![userId] = FileAfterWrite(fs[userId], Stringify(merged), w)]]

\* saveMemory: overwrite the user's file. The "remembering" handler's
\* saveMemory catches a failed write; the "searching" handler's does not.
saveMemory(v, fs, userId, memory, w) ==
    [threw |-> (w # "ok" /\ v = "searching"),
     files |-> [fs EXCEPT ![userId] = FileAfterWrite(fs[userId], Stringify(memory), w)]]

\* ------------------------------------------------------- chat: the handlers
DisclaimerPhrases == {"as an ai", "language model"}
NotDisclaimer(w) == w \notin DisclaimerPhrases

NoResponseText(v) ==
    IF v = "remembering" THEN Str(<<"No response received.">>)
    ELSE Str(<<"No reply received.">>)

\* The reply built from the model's answer: the text or, when it is missing,
\* the fixed notice; the "remembering" handler then removes the disclaimer
\* phrases.
ReplyText(v, text) ==
    LET full == IF text.kind = "missing" THEN NoResponseText(v) ELSE text
    IN  IF v = "remembering" /\ full.kind = "string"
        THEN Str(SelectSeq(full.words, NotDisclaimer))
        ELSE full

Triggers ==
    {<<"s", "e", "a", "r", "c", "h">>,
     <<"f", "i", "n", "d">>,
     <<"l", "o", "o", "k", " ", "u", "p">>,
     <<"c", "h", "e", "c", "k", " ", "o", "n", "l", "i", "n", "e">>,
     <<"a", "n", "y", " ", "n", "e", "w", "s">>,
     <<"t", "r", "e", "n", "d", "i", "n", "g">>,
     <<"l", "a", "t", "e", "s", "t", " ", "u", "p", "d", "a", "t", "e", "s">>,
     <<"o", "n", " ", "r", "e", "d", "d", "i", "t">>,
     <<"o", "n", " ", "t", "w", "i", "t", "t", "e", "r">>,
     <<"c", "u", "r", "r", "e", "n", "t", " ", "e", "v", "e", "n", "t", "s">>}

\* Mutant: needsSearch asking for a search whatever the prompt.
needsSearch_Always(prompt) == TRUE

\* triggers.some((t) => prompt.toLowerCase().includes(t))
needsSearch(prompt) == \E t \in Triggers : includes(toLowerCase(prompt.words), t)

\* One card: the fields of a result the client displays (rank stands for
\* its title, url and snippet).
Card(a) == [rank |-> a.rank, image |-> a.image, source |-> a.source]

\* The result cards the "searching" handler builds from the search data.
NewsCards(data) ==
    IF ~data.isNull /\ Len(data.sources) > 0 THEN MapSeq(data.sources, Card) ELSE <<>>

\* What a request knows of its search step: not run, or what it returned.
NotSearched == [called |-> FALSE, isNull |-> TRUE, sources |-> <<>>]
Searched(data) == [called |-> TRUE, isNull |-> data.isNull, sources |-> data.sources]

\* The status the handler answers a non-success status of the model with.
ModelErrorStatus(v, code) == IF v = "remembering" THEN code ELSE 500

IdleReq ==
    [pc |-> "idle", userId |-> "", prompt |-> NoText, project |-> NoText,
     found |-> "none", memory |-> NoMemory, data |-> NotSearched, news |-> <<>>,
     model |-> "none",
     wrote |-> "none", status |-> 0, error |-> "none", reply |-> NoText]

\* Mutant: the handler without its push of the user's Turn.
WithUserTurn_NoPush(v, memory, prompt, project) ==
    [memory EXCEPT
        !.lastProject = IF v = "remembering" /\ project.kind # "missing"
                        THEN project ELSE @,
        !.lastTask = IF v = "remembering" THEN prompt ELSE @]

\* memory after the handler's updates between the load and the first await.
WithUserTurn(v, memory, prompt, project) ==
    [memory EXCEPT
        !.lastProject = IF v = "remembering" /\ project.kind # "missing"
                        THEN project ELSE @,
        !.lastTask = IF v = "remembering" THEN prompt ELSE @,
        !.conversation = Append(@, Turn("user", prompt))]

\* Mutant: the assistant's Turn written over the last Turn.
WithAssistantTurn_Overwrites(memory, reply) ==
    [memory EXCEPT !.conversation[Len(memory.conversation)] = Turn("assistant", reply)]

\* memory.conversation.push({ role: "assistant", content: reply })
WithAssistantTurn(memory, reply) ==
    [memory EXCEPT !.conversation = Append(@, Turn("assistant", reply))]

VARIABLES
    cVariant,      \* which chat handler is deployed
    files,         \* the conversation file of each user
    req            \* the chat requests

chatVars == <<cVariant, files, req>>

VARIABLES
    lText,         \* the text detectLanguage is given
    lang           \* what each detectLanguage returned for it

langVars == <<lText, lang>>

vars == <<searchVars, chatVars, langVars>>

\* The classifier's side while requests are followed.
LangQuiet ==
    /\ lText = <<>>
    /\ lang = [v \in ChatVariants |-> "none"]

\* The chat side while a search request is followed.
ChatQuiet ==
    /\ cVariant = "remembering"
    /\ files = [u \in Users |-> Absent]
    /\ req = [r \in Reqs |-> IdleReq]

SearchInit ==
    /\ ChatQuiet
    /\ LangQuiet
    /\ sVariant \in SearchVariants
    /\ sBody \in Bodies
    /\ sSources \in IF sVariant = "social" THEN SourcesValues
                    ELSE {[given |-> FALSE, names |-> {}]}
    /\ geminiKey \in IF sVariant = "summarizing" THEN BOOLEAN ELSE {FALSE}
    /\ sPc = "start"
    /\ sNext = 0
    /\ calls = [a \in Adapters |-> Idle]
    /\ sources = <<>>
    /\ geminiCall = "none"
    /\ response = NoResponse

\* The query is missing: 400 before any adapter is called.
RejectMissingQuery ==
    /\ sPc = "start"
    /\ ParseQuery(sVariant, sBody) = "missing"
    /\ response' = ErrorResponse(400)
    /\ sPc' = "done"
    /\ UNCHANGED <<langVars, chatVars, sVariant, sBody, sSources, geminiKey, sNext, calls, sources, geminiCall>>

\* Destructuring req.body throws inside the try: the catch answers 500.
BodyThrows ==
    /\ sPc = "start"
    /\ ParseQuery(sVariant, sBody) = "throws"
    /\ response' = ErrorResponse(500)
    /\ sPc' = "done"
    /\ UNCHANGED <<langVars, chatVars, sVariant, sBody, sSources, geminiKey, sNext, calls, sources, geminiCall>>

\* Promise.all([...]): the four calls are issued in one synchronous step.
FanOut ==
    /\ sPc = "start"
    /\ sVariant # "social"
    /\ ParseQuery(sVariant, sBody) = "present"
    /\ calls' = [a \in Adapters |-> IF a \in WebAdapters THEN Pending ELSE Idle]
    /\ sPc' = "fanout"
    /\ UNCHANGED <<langVars, chatVars, sVariant, sBody, sSources, geminiKey, sNext, sources, geminiCall, response>>

\* One adapter call settles; a call still pending when the handler has
\* answered runs on all the same.
AdapterSettles(a) ==
    /\ calls[a].state = "pending"
    /\ \E up \in UpstreamOf(sVariant, a) :
          calls' = [calls EXCEPT ![a] = RunAdapter(a, sVariant, up)]
    /\ UNCHANGED <<langVars, chatVars, sVariant, sBody, sSources, geminiKey, sPc, sNext, sources, geminiCall, response>>

AllFulfilled == \A a \in WebAdapters : calls[a].state = "fulfilled"
SomeRejected == \E a \in WebAdapters : calls[a].state = "rejected"

\* Promise.all rejects with the first rejection: the catch answers 500.
FanInRejected ==
    /\ sPc = "fanout"
    /\ SomeRejected
    /\ response' = ErrorResponse(500)
    /\ sPc' = "done"
    /\ UNCHANGED <<langVars, chatVars, sVariant, sBody, sSources, geminiKey, sNext, calls, sources, geminiCall>>

\* part_001: merge, truncate, answer.
FanInPlain ==
    /\ sPc = "fanout"
    /\ sVariant = "plain"
    /\ AllFulfilled
    /\ sources' = MergeSources(calls)
    /\ response' = PlainResponse(sources')
    /\ sPc' = "done"
    /\ UNCHANGED <<langVars, chatVars, sVariant, sBody, sSources, geminiKey, sNext, calls, geminiCall>>

\* src/api/search.js: answer the four result lists side by side.
FanInFeeds ==
    /\ sPc = "fanout"
    /\ sVariant = "feeds"
    /\ AllFulfilled
    /\ response' = GroupedResponse(calls)
    /\ sPc' = "done"
    /\ UNCHANGED <<langVars, chatVars, sVariant, sBody, sSources, geminiKey, sNext, calls, sources, geminiCall>>

\* part_000 without a credential: the model is skipped, the answer is sent
\* in the same step.
FanInNoKey ==
    /\ sPc = "fanout"
    /\ sVariant = "summarizing"
    /\ AllFulfilled
    /\ ~geminiKey
    /\ sources' = MergeSources(calls)
    /\ response' = AnswerAfterSummary("skipped", sources')
    /\ sPc' = "done"
    /\ UNCHANGED <<langVars, chatVars, sVariant, sBody, sSources, geminiKey, sNext, calls, geminiCall>>

\* part_000 with a credential: merge, then await model.generateContent.
FanInSummarize ==
    /\ sPc = "fanout"
    /\ sVariant = "summarizing"
    /\ AllFulfilled
    /\ geminiKey
    /\ sources' = MergeSources(calls)
    /\ geminiCall' = "pending"
    /\ sPc' = "summarize"
    /\ UNCHANGED <<langVars, chatVars, sVariant, sBody, sSources, geminiKey, sNext, calls, response>>

\* The model call resolves or throws; either way the handler answers 200.
SummarySettles ==
    /\ sPc = "summarize"
    /\ \E outcome \in {"ok", "throws"} :
          /\ geminiCall' = outcome
          /\ response' = AnswerAfterSummary(outcome, sources)
    /\ sPc' = "done"
    /\ UNCHANGED <<langVars, chatVars, sVariant, sBody, sSources, geminiKey, sNext, calls, sources>>

\* social-search.js: with a query the handler walks SocialOrder, and calls
\* the first adapter the request enables.
SocialStart ==
    /\ sPc = "start"
    /\ sVariant = "social"
    /\ ParseQuery(sVariant, sBody) = "present"
    /\ sNext' = NextEnabled(sSources, 1)
    /\ calls' = [a \in Adapters |->
                    IF sNext' <= Len(SocialOrder) /\ a = SocialOrder[sNext']
                    THEN Pending ELSE Idle]
    /\ sPc' = "sequence"
    /\ UNCHANGED <<langVars, chatVars, sVariant, sBody, sSources, geminiKey, sources, geminiCall, response>>

\* results.push(...(await searchX(q))): the awaited call has resolved, its
\* records are appended, and only now is the next enabled adapter called.
SocialCollect ==
    /\ sPc = "sequence"
    /\ sNext <= Len(SocialOrder)
    /\ calls[SocialOrder[sNext]].state = "fulfilled"
    /\ sources' = sources \o calls[SocialOrder[sNext]].value
    /\ sNext' = NextEnabled(sSources, sNext + 1)
    /\ calls' = IF sNext' <= Len(SocialOrder)
                THEN [calls EXCEPT ![SocialOrder[sNext']] = Pending]
                ELSE calls
    /\ UNCHANGED <<langVars, chatVars, sVariant, sBody, sSources, geminiKey, sPc, geminiCall, response>>

\* res.status(200).json({ items: results })
SocialRespond ==
    /\ sPc = "sequence"
    /\ sNext > Len(SocialOrder)
    /\ response' = ItemsResponse(sources)
    /\ sPc' = "done"
    /\ UNCHANGED <<langVars, chatVars, sVariant, sBody, sSources, geminiKey, sNext, calls, sources, geminiCall>>

SearchNext ==
    \/ RejectMissingQuery
    \/ BodyThrows
    \/ FanOut
    \/ \E a \in Adapters : AdapterSettles(a)
    \/ FanInRejected
    \/ FanInPlain
    \/ FanInFeeds
    \/ FanInNoKey
    \/ FanInSummarize
    \/ SummarySettles
    \/ SocialStart
    \/ SocialCollect
    \/ SocialRespond

\* One search request.
SearchSpec == SearchInit /\ [][SearchNext]_vars

\* ---------------------------------------------------- chat: the actions
\* The search side while chat requests are followed.
SearchQuiet ==
    /\ sVariant = "summarizing"
    /\ sBody = "absent"
    /\ sSources = [given |-> FALSE, names |-> {}]
    /\ geminiKey = FALSE
    /\ sPc = "start"
    /\ sNext = 0
    /\ calls = [a \in Adapters |-> Idle]
    /\ sources = <<>>
    /\ geminiCall = "none"
    /\ response = NoResponse

\* No conversation file, no request yet.
ChatInit ==
    /\ SearchQuiet
    /\ LangQuiet
    /\ cVariant \in ChatVariants
    /\ files = [u \in Users |-> Absent]
    /\ req = [r \in Reqs |-> IdleReq]

\* Requests arrive in the order of their numbers.
MayStart(r) == req[r].pc = "idle" /\ (r > 1 => req[r - 1].pc # "idle")

\* !prompt || !userId: 400 before the load.
ChatReject(r) ==
    /\ MayStart(r)
    /\ \E u \in Users \cup {""}, b \in ChatBodies(r) :
          /\ b.prompt.kind = "missing" \/ u = ""
          /\ req' = [req EXCEPT ![r] =
                [@ EXCEPT !.pc = "done", !.userId = u, !.prompt = b.prompt,
                          !.project = b.project,
                          !.status = 400, !.error = "Missing prompt or userId."]]
    /\ UNCHANGED <<langVars, searchVars, cVariant, files>>

\* From the load to the first await: load, note the user's Turn, classify the
\* prompt's language (which throws on a prompt that is no string), and call
\* the search endpoint or the model.
ChatBegin(r) ==
    /\ MayStart(r)
    /\ \E u \in Users, b \in ChatBodies(r) :
          /\ b.prompt.kind # "missing"
          /\ LET p == b.prompt
                 proj == b.project
                 loaded == loadMemory(cVariant, u, files[u])
                 mem == WithUserTurn(cVariant, loaded.memory, p, proj)
                 base == [req[r] EXCEPT !.userId = u, !.prompt = p, !.project = proj,
                                        !.found = loaded.found]
             IN  req' = [req EXCEPT ![r] =
                    IF loaded.threw \/ p.kind # "string"
                    THEN [base EXCEPT !.pc = "done", !.status = 500,
                                      !.error = "Server error."]
                    ELSE [base EXCEPT
                            !.memory = mem,
                            !.pc = IF cVariant = "searching" /\ needsSearch(p)
                                   THEN "search" ELSE "model"]]
    /\ UNCHANGED <<langVars, searchVars, cVariant, files>>

\* getSearchData resolves: the result cards are kept for the response.
ChatSearchSettles(r) ==
    /\ req[r].pc = "search"
    /\ \E data \in SearchData :
          req' = [req EXCEPT ![r] = [@ EXCEPT !.data = Searched(data),
                                             !.news = NewsCards(data),
                                             !.pc = "model"]]
    /\ UNCHANGED <<langVars, searchVars, cVariant, files>>

\* The fetch of the chat model fails: rejected, a non-success status, or a
\* body that is no JSON.
ChatModelFails(r) ==
    /\ req[r].pc = "model"
    /\ \E out \in ModelOutcomes :
          /\ out.kind # "ok"
          /\ req' = [req EXCEPT ![r] =
                [@ EXCEPT
                    !.pc = "done",
                    !.model = out.kind,
                    !.status = IF out.kind = "status"
                               THEN ModelErrorStatus(cVariant, out.code) ELSE 500,
                    !.error = IF out.kind # "status" THEN "Server error."
                              ELSE IF cVariant = "remembering" THEN "upstream error text"
                              ELSE "Gemini API failed"]]
    /\ UNCHANGED <<langVars, searchVars, cVariant, files>>

\* The chat model answers: note the assistant's Turn, save, respond.
ChatModelAnswers(r) ==
    /\ req[r].pc = "model"
    /\ \E out \in ModelOutcomes, w \in WriteOutcomes :
          /\ out.kind = "ok"
          /\ LET reply == ReplyText(cVariant, out.text)
                 mem == WithAssistantTurn(req[r].memory, reply)
                 saved == saveMemory(cVariant, files, req[r].userId, mem, w)
             IN  /\ files' = saved.files
                 /\ req' = [req EXCEPT ![r] =
                        IF saved.threw
                        THEN [@ EXCEPT !.pc = "done", !.model = "ok", !.memory = mem,
                                       !.wrote = w, !.status = 500,
                                       !.error = "Server error."]
                        ELSE [@ EXCEPT !.pc = "done", !.model = "ok", !.memory = mem,
                                       !.wrote = w, !.status = 200, !.reply = reply]]
    /\ UNCHANGED <<langVars, searchVars, cVariant>>

ChatNext ==
    \E r \in Reqs :
        \/ ChatReject(r)
        \/ ChatBegin(r)
        \/ ChatSearchSettles(r)
        \/ ChatModelFails(r)
        \/ ChatModelAnswers(r)

\* Chat requests served concurrently.
ChatSpec == ChatInit /\ [][ChatNext]_vars

\* Chat requests served one after another: a request is taken up only when
\* no other is between its load and its response.
InFlight == {r \in Reqs : req[r].pc \notin {"idle", "done"}}

SerialReject(r) == InFlight = {} /\ ChatReject(r)
SerialBegin(r) == InFlight = {} /\ ChatBegin(r)

SerialChatNext ==
    \E r \in Reqs :
        \/ SerialReject(r)
        \/ SerialBegin(r)
        \/ ChatSearchSettles(r)
        \/ ChatModelFails(r)
        \/ ChatModelAnswers(r)

SerialChatSpec == ChatInit /\ [][SerialChatNext]_vars

\* ------------------------------------------------- detectLanguage on its own
LangInit ==
    /\ SearchQuiet
    /\ ChatQuiet
    /\ lText \in Texts
    /\ lang = [v \in ChatVariants |-> "none"]

\* Both detectLanguage functions are applied to the text.
Classify ==
    /\ lang = [v \in ChatVariants |-> "none"]
    /\ lang' = [v \in ChatVariants |-> detectLanguage(v, lText)]
    /\ UNCHANGED <<searchVars, chatVars, lText>>

LangNext == Classify

LangSpec == LangInit /\ [][LangNext]_vars

\* =================================================================== claims
\* What each adapter of the request returned to the handler.
Returned(a) == calls[a].value

TotalReturned ==
    Len(Returned("wiki")) + Len(Returned("news")) + Len(Returned("reddit"))
        + Len(Returned("duck"))

\* Entry i of: the Wikipedia results, then news, then Reddit, then DuckDuckGo.
PriorityAt(i) ==
    LET w == Len(Returned("wiki"))
        n == Len(Returned("news"))
        r == Len(Returned("reddit"))
    IN  IF i <= w THEN Returned("wiki")[i]
        ELSE IF i <= w + n THEN Returned("news")[i - w]
        ELSE IF i <= w + n + r THEN Returned("reddit")[i - w - n]
        ELSE Returned("duck")[i - w - n - r]

\* The positions of s that hold an image, and the k-th of them.
WithImage(s) == {i \in 1..Len(s) : s[i].image # NoImage}
KthWithImage(s, k) ==
    CHOOSE i \in WithImage(s) : Cardinality({j \in WithImage(s) : j <= i}) = k

SourcesAsClaimed(resp) ==
    /\ Len(resp.sources) = Min(10, TotalReturned)
    /\ \A i \in 1..Len(resp.sources) : resp.sources[i] = PriorityAt(i)

ImagesAsClaimed(resp) ==
    /\ Len(resp.images) = Min(6, Cardinality(WithImage(resp.sources)))
    /\ \A k \in 1..Len(resp.images) :
          resp.images[k] = resp.sources[KthWithImage(resp.sources, k)].image

\* C1: the sources list of a search response is exactly the first
\* min(10, total) items of Wikipedia, then news, then Reddit, then DuckDuckGo
\* results, each provider's items in the order it returned them; it never
\* holds more than 10 items.
C1_SourcesArePriorityPrefix ==
    (response.status = 200 /\ response.shape \in {"plain", "full"}) =>
        /\ Len(response.sources) <= 10
        /\ SourcesAsClaimed(response)
        /\ response.fetched = Len(response.sources)

\* C1 witness: all four adapters returned items, more than 10 in all, and the
\* handler has answered.
C1_Witness ==
    /\ response.status = 200
    /\ response.shape \in {"plain", "full"}
    /\ \A a \in WebAdapters : Len(Returned(a)) > 0
    /\ TotalReturned > 10

\* C2: the images list has at most 6 entries, the image URLs of the first
\* items of the truncated sources list that have an image, in sources order;
\* no image of an item cut off by the 10-item truncation appears in it.
C2_ImagesFromKeptSources ==
    response.shape = "full" =>
        /\ Len(response.images) <= 6
        /\ ImagesAsClaimed(response)
        /\ \A i \in 11..TotalReturned : \A k \in 1..Len(response.images) :
              PriorityAt(i).image # NoImage => response.images[k] # PriorityAt(i).image

\* C2 witness: more than 6 of the kept items have an image, and an item that
\* was cut off has one too.
C2_Witness ==
    /\ response.shape = "full"
    /\ Cardinality(WithImage(response.sources)) > 6
    /\ \E i \in 11..TotalReturned : PriorityAt(i).image # NoImage

\* C3: a failure of any source adapter degrades to an empty result for that
\* adapter and never aborts the aggregation: whatever adapters fail, the
\* search handler of part_000 answers 200 with the other adapters' results.
C3_AdapterFailureNeverAborts ==
    (sVariant = "summarizing" /\ sPc = "done" /\ sBody = "query") =>
        /\ response.status = 200
        /\ SourcesAsClaimed(response)

\* C4: summarization is best-effort: without a credential the model is never
\* called, and when the model call fails the response is still 200 with the
\* fallback reply and with the sources and images of a successful summary.
C4_SummaryIsBestEffort ==
    sVariant = "summarizing" =>
        /\ ~geminiKey => geminiCall = "none"
        /\ geminiCall = "throws" =>
              /\ response.status = 200
              /\ response.reply = FallbackReply
              /\ SourcesAsClaimed(response)
              /\ ImagesAsClaimed(response)
        /\ (geminiCall = "none" /\ response.status = 200) =>
              response.reply = FallbackReply
        /\ geminiCall = "ok" =>
              /\ response.reply = ModelReply
              /\ SourcesAsClaimed(response)
              /\ ImagesAsClaimed(response)

\* C4 witness: the model call failed over a non-empty result list with images.
C4_Witness ==
    /\ geminiCall = "throws"
    /\ response.status = 200
    /\ Len(response.sources) > 0
    /\ Len(response.images) > 0

\* C5: a search request whose query is missing or empty is answered 400,
\* whatever its sources value, and no adapter and no summarizer is invoked.
C5_MissingQueryIs400 ==
    (sBody # "query" /\ sPc = "done") =>
        /\ response.status = 400
        /\ response.shape = "error"
        /\ \A a \in Adapters : calls[a].state = "idle"
        /\ geminiCall = "none"

\* The adapters this request calls.
Wanted(a) ==
    /\ a \in AdaptersOf(sVariant)
    /\ sVariant = "social" => Enabled(sSources, a)

\* C6: every enabled adapter call is issued concurrently (none waits for
\* another's result before starting), and the response is sent only once
\* every issued call has resolved.
C6_ConcurrentFanOutFullFanIn ==
    /\ \A a, b \in Adapters :
          (Wanted(a) /\ Wanted(b) /\ calls[a].state # "idle") => calls[b].state # "idle"
    /\ response.status # 0 => \A a \in Adapters : calls[a].state # "pending"

\* The one-Turn conversation of the default record.
DefaultConversation == <<Turn("system", SystemPrompt(cVariant))>>

\* The conversation a user's file holds; the default one when there is no
\* readable file.
Persisted(u) ==
    IF files[u].kind = "json" THEN files[u].value.conversation ELSE DefaultConversation

\* C7: whatever chat requests came before, loadMemory returns for every user
\* a record whose first Turn has role system; with no file, or an unreadable
\* one, it returns the default record of exactly one system Turn; it never
\* raises.
C7_LoadStartsWithSystemTurn ==
    /\ \A u \in Users :
          LET l == loadMemory(cVariant, u, files[u])
          IN  /\ ~l.threw
              /\ Len(l.memory.conversation) >= 1
              /\ l.memory.conversation[1].role = "system"
              /\ files[u].kind # "json" =>
                    /\ Len(l.memory.conversation) = 1
                    /\ l.memory.conversation[1].content = SystemPrompt(cVariant)
    /\ \A r \in Reqs :
          req[r].found # "none" =>
              /\ ~(req[r].status = 500 /\ req[r].prompt.kind = "string"
                     /\ req[r].model = "none")
              /\ req[r].memory # NoMemory =>
                    /\ req[r].memory.conversation[1].role = "system"
                    /\ req[r].found # "json" =>
                          req[r].memory.conversation[2] = Turn("user", req[r].prompt)

\* C7 witness: a request loaded a user's record from an unreadable file.
C7_Witness ==
    \E r \in Reqs :
        /\ req[r].found = "garbage"
        /\ req[r].memory # NoMemory
        /\ req[r].memory.conversation[1].role = "system"

\* Request r is answered 200 by this step.
Answers200(r) == req[r].pc # "done" /\ req'[r].pc = "done" /\ req'[r].status = 200

\* The user's file now holds what it held (or the default conversation)
\* followed by the request's user Turn and assistant Turn.
AppendedItsTurns(r) ==
    LET u == req'[r].userId
    IN  /\ files'[u].kind = "json"
        /\ files'[u].value.conversation =
              Persisted(u) \o <<Turn("user", req'[r].prompt),
                                Turn("assistant", req'[r].reply)>>
        /\ \A o \in Users \ {u} : files'[o] = files[o]

\* C8 as stated: with chat requests served one after another, every request
\* answered 200 leaves the user's persisted conversation equal to the one
\* persisted before followed by its user Turn and its assistant Turn.
C8_EveryOkRequestAppends ==
    [][\A r \in Reqs : Answers200(r) => AppendedItsTurns(r)]_vars

\* C8 amended: the same for every request answered 200 whose write to
\* storage succeeded; when the write failed the file is left as it was or
\* unreadable, and no other user's file changes.
C8_OkRequestAppendsWhenWritten ==
    [][\A r \in Reqs :
          Answers200(r) =>
              /\ req'[r].wrote = "ok" => AppendedItsTurns(r)
              /\ req'[r].wrote # "ok" =>
                    /\ files'[req'[r].userId] \in {files[req'[r].userId], Garbage}
                    /\ \A o \in Users \ {req'[r].userId} : files'[o] = files[o]]_vars

\* C8 witness: two requests of one user, served one after the other, both
\* answered 200 and both persisted.
C8_Witness ==
    \E u \in Users :
        /\ \A r \in Reqs : r <= 2 =>
              req[r].userId = u /\ req[r].status = 200 /\ req[r].wrote = "ok"
        /\ files[u].kind = "json"
        /\ Len(files[u].value.conversation) >= 5

\* Request r was answered 200 and wrote its record.
Saved200(r) == req[r].pc = "done" /\ req[r].status = 200 /\ req[r].wrote = "ok"

\* The conversation request r loaded, before its own two Turns.
LoadedBy(r) ==
    SubSeq(req[r].memory.conversation, 1, Len(req[r].memory.conversation) - 2)

\* The user's file holds the user Turn of request r.
Holds(u, r) ==
    /\ files[u].kind = "json"
    /\ \E i \in 1..Len(files[u].value.conversation) :
          files[u].value.conversation[i] = Turn("user", req[r].prompt)

\* Two requests of one user that both loaded the record before either saved.
Overlapped(a, b) ==
    /\ a # b
    /\ Saved200(a) /\ Saved200(b)
    /\ req[a].userId = req[b].userId
    /\ LoadedBy(a) = LoadedBy(b)

\* C9: two chat requests of one user that overlap can both be answered 200
\* while the persisted conversation holds the Turns of only one of them: the
\* file never holds the Turns of both.
C9_OverlapLosesOneRequest ==
    \A a, b \in Reqs :
        Overlapped(a, b) => ~(Holds(req[a].userId, a) /\ Holds(req[a].userId, b))

\* C9 witness: both overlapping requests were answered 200 and wrote; the
\* file holds the Turns of b only.
C9_Witness ==
    \E a, b \in Reqs :
        /\ Overlapped(a, b)
        /\ Holds(req[a].userId, b)
        /\ ~Holds(req[a].userId, a)
        /\ files[req[a].userId].value = req[b].memory

\* C10: in the chat handlers any failure of the chat-model call (network
\* error or non-success status) is answered 500 with an error body.
C10_ModelFailureIs500 ==
    \A r \in Reqs :
        req[r].model \in {"network", "status", "malformed"} =>
            /\ req[r].status = 500
            /\ req[r].error # "none"

\* C11: a failed write of the conversation record is swallowed: whenever the
\* chat-model call succeeded, the request is answered 200 with the reply,
\* whether or not the write to storage succeeded.
C11_WriteFailureIsSwallowed ==
    \A r \in Reqs :
        (req[r].pc = "done" /\ req[r].model = "ok") =>
            /\ req[r].status = 200
            /\ req[r].reply # NoText
            /\ req[r].error = "none"

\* Two characters that are the same letter, whatever their case.
SameLetter(a, b) ==
    a = b \/ \E i \in 1..Len(Lowers) : {a, b} = {Lowers[i], Uppers[i]}

\* Keyword w occurs in text t, case aside.
OccursIn(w, t) ==
    \E i \in 0..(Len(t) - Len(w)) : \A j \in 1..Len(w) : SameLetter(t[i + j], w[j])

\* The keywords of a list that occur in the text.
Occurring(list, t) == {i \in 1..Len(list) : OccursIn(list[i], t)}

\* k: the keywords of the two lists of variant v that occur in the text.
KeywordCount(v, t) ==
    Cardinality(Occurring(swahiliWords(v), t)) + Cardinality(Occurring(shengWords(v), t))

ByThreshold(k) == IF k = 0 THEN "english" ELSE IF k <= 2 THEN "mixed" ELSE "swahili"

\* C12: detectLanguage depends only on the number k of keywords of its two
\* lists that occur in the text as case-insensitive substrings: k = 0 gives
\* english, k = 1 or 2 mixed, k >= 3 swahili, in both variants of the function.
C12_LanguageByKeywordCount ==
    \A v \in ChatVariants :
        lang[v] # "none" => lang[v] = ByThreshold(KeywordCount(v, lText))

\* C12 witness: a text with a keyword in capitals that holds three keywords of
\* the first function's lists and two of the second's.
C12_Witness ==
    /\ lang["remembering"] = "swahili"
    /\ lang["searching"] = "mixed"
    /\ KeywordCount("remembering", lText) = 3
    /\ KeywordCount("searching", lText) = 2
    /\ \E i \in 1..Len(lText) : LowerChar(lText[i]) # lText[i]

\* The prompt contains one of the trigger phrases, case aside.
ContainsTrigger(prompt) ==
    prompt.kind = "string" /\ \E t \in Triggers : OccursIn(t, prompt.words)

\* The search of request r failed or returned no result.
SearchCameBackEmpty(r) ==
    req[r].data.called /\ (req[r].data.isNull \/ req[r].data.sources = <<>>)

\* C13: the search step is invoked only when the prompt contains a trigger
\* phrase (case-insensitive); the news of a 200 response is non-empty only if
\* a trigger matched and the search returned results, and then holds one card
\* per result in the same order; a failed or empty search gives no news and
\* does not fail the request.
C13_NewsOnlyFromTriggeredSearch ==
    \A r \in Reqs :
        /\ (req[r].pc = "search" \/ req[r].data.called) =>
              cVariant = "searching" /\ ContainsTrigger(req[r].prompt)
        /\ (req[r].status = 200 /\ req[r].news # <<>>) =>
              /\ req[r].data.called
              /\ ContainsTrigger(req[r].prompt)
              /\ ~req[r].data.isNull
              /\ Len(req[r].data.sources) > 0
              /\ Len(req[r].news) = Len(req[r].data.sources)
              /\ \A i \in 1..Len(req[r].news) :
                    /\ req[r].news[i].rank = req[r].data.sources[i].rank
                    /\ req[r].news[i].image = req[r].data.sources[i].image
                    /\ req[r].news[i].source = req[r].data.sources[i].source
        /\ SearchCameBackEmpty(r) =>
              /\ req[r].news = <<>>
              /\ req[r].pc = "done" => req[r].model # "none"
              /\ (req[r].model = "ok" /\ req[r].wrote = "ok") => req[r].status = 200

\* C13 witness: a request whose prompt holds a trigger inside a longer word,
\* in capitals, was answered 200 with one card for each of several results;
\* another, whose search failed, was answered 200 without news.
C13_Witness ==
    \E a, b \in Reqs :
        /\ req[a].status = 200
        /\ Len(req[a].news) >= 2
        /\ ContainsTrigger(req[a].prompt)
        /\ req[a].prompt.words[1] = "F"
        /\ req[b].status = 200
        /\ req[b].data.called /\ req[b].data.isNull

\* C14: a chat request that does not end in a 200 response leaves the
\* persisted record of every user exactly as it was: no step of a request
\* other than its 200 answer changes a file.
C14_Non200LeavesStorage ==
    [][(\A r \in Reqs : ~Answers200(r)) => files' = files]_vars

\* A conversation of one system Turn followed by (user, assistant) pairs.
WellShaped(conversation) ==
    /\ Len(conversation) % 2 = 1
    /\ conversation[1].role = "system"
    /\ \A i \in 2..Len(conversation) :
          conversation[i].role = IF i % 2 = 0 THEN "user" ELSE "assistant"

\* C15: under any interleaving of chat requests, starting from empty
\* storage, every persisted conversation is one system Turn followed by
\* (user, assistant) pairs: it has odd length, never ends with a user Turn and
\* never has two consecutive Turns of one role.
C15_PersistedShape ==
    \A u \in Users :
        files[u].kind = "json" =>
            LET c == files[u].value.conversation
            IN  /\ WellShaped(c)
                /\ c[Len(c)].role # "user"
                /\ \A i \in 1..(Len(c) - 1) : c[i].role # c[i + 1].role

\* C15 witness: a request that loaded a conversation persisted by an earlier
\* request was answered 200 and its record, two pairs long or more, is the
\* file.
C15_Witness ==
    \E u \in Users, r \in Reqs :
        /\ files[u].kind = "json"
        /\ Len(files[u].value.conversation) >= 5
        /\ req[r].userId = u /\ req[r].found = "json" /\ req[r].status = 200
        /\ files[u].value = req[r].memory

====
